---- MODULE Spec2Model ----
(***************************************************************************)
(* Model of the OCR server of kuroahna/ocr (src/src/main.rs): the request  *)
(* handler `ocr`, the image transform pipeline, the Tesseract engine       *)
(* behind std::sync::Mutex and the Google Lens engine.                     *)
(*                                                                         *)
(* An image is its width, height and colour model; pixel values are not    *)
(* part of the state.  A text is a sequence of string pieces, each piece   *)
(* either a run of non-whitespace characters, a blank " " or a line break  *)
(* "\n".  A Rust panic inside a handler unwinds the request's task: the    *)
(* connection is closed without a response (response status "aborted").    *)
(***************************************************************************)
EXTENDS Integers, Sequences, FiniteSets, TLC

\* Number of requests handled concurrently.
NumReq == 2
\* Longest operation list of a request in the pipeline specification.
MaxOps == 2
\* Most paragraphs of a text layout, and most lines of a paragraph, in the
\* Lens specification.
MaxParagraphs == 2
MaxLines == 2

Reqs == 1..NumReq

-----------------------------------------------------------------------------
(* Images and operations                                                   *)

NoImage == [width |-> 0, height |-> 0, color |-> "none"]

Min(a, b) == IF a < b THEN a ELSE b

\* DynamicImage::invert changes pixel values only: width, height and colour
\* model stay as they are.
Invert(image) == [image EXCEPT !.width = image.width]

\* to_luma8 with the colour model kept.
ToLuma8KeepsColor(image) == image

\* DynamicImage::to_luma8 followed by DynamicImage::ImageLuma8.
ToLuma8(image) == [image EXCEPT !.color = "L8"]

\* imageproc::contrast::threshold_mut on the grayscale copy.
Binarize(image, op) == ToLuma8(image)

\* otsu_level then threshold_mut on the grayscale copy.
OtsuBinarize(image, op) == ToLuma8(image)

\* image::imageops::crop clamps the rectangle to the image
\* (crop_dimension_clamp): x and y to the image size, width and height to
\* what is left.
Crop(image, op) ==
    LET x == Min(op.x, image.width)
        y == Min(op.y, image.height)
    IN  [image EXCEPT !.width  = Min(op.width, image.width - x),
                      !.height = Min(op.height, image.height - y)]

\* Rect::of_size asserts width > 0 and height > 0.
RectPanics(op) == op.width = 0 \/ op.height = 0

\* draw_filled_rect builds the bounds of the canvas with Rect::of_size too,
\* which asserts on an image without pixels.
CanvasPanics(image) == image.width = 0 \/ image.height = 0

\* imageproc::drawing::draw_filled_rect returns an RGBA image of the same
\* dimensions.
DrawFilledRectangle(image, op) == [image EXCEPT !.color = "Rgba8"]

\* imageproc::filter::gaussian_blur_f32 asserts sigma > 0.0.  sigma is held
\* in tenths (15 is 1.5).
BlurPanics(op) == ~(op.sigma > 0)

GaussianBlur(image, op) == ToLuma8(image)

\* One arm of the match in ImageTransformer::transform.
OpPanics(image, op) ==
    CASE op.type = "drawFilledRectangle" ->
            RectPanics(op) \/ CanvasPanics(image)
      [] op.type = "gaussianBlur"        -> BlurPanics(op)
      [] OTHER                           -> FALSE

ApplyOp(image, op) ==
    CASE op.type = "invert"              -> Invert(image)
      [] op.type = "binarize"            -> Binarize(image, op)
      [] op.type = "otsuBinarize"        -> OtsuBinarize(image, op)
      [] op.type = "crop"                -> Crop(image, op)
      [] op.type = "drawFilledRectangle" -> DrawFilledRectangle(image, op)
      [] op.type = "gaussianBlur"        -> GaussianBlur(image, op)

\* The operation the loop of transform takes in its (i+1)-th iteration.
NextOperationReversed(operations, i) == operations[Len(operations) - i]

NextOperation(operations, i) == operations[i + 1]

-----------------------------------------------------------------------------
(* ImageTransformer::transform on pixel values                             *)

\* An image with its pixels: data[y + 1][x + 1] is the pixel at (x, y), a
\* tuple of channel values, <<l>>, <<r, g, b>> or <<r, g, b, a>>.
Pixels(width, height, color, data) ==
    [width |-> width, height |-> height, color |-> color, data |-> data]

\* Width, height and colour model of an image with pixels.
Dimensions(image) ==
    [width |-> image.width, height |-> image.height, color |-> image.color]

\* DynamicImage::invert: every channel v becomes 255 - v, the alpha channel
\* is kept.
invert(image) ==
    [image EXCEPT !.data =
        [y \in 1..image.height |-> [x \in 1..image.width |->
            [k \in 1..Len(image.data[y][x]) |->
                IF k = 4 THEN image.data[y][x][k]
                ELSE 255 - image.data[y][x][k]]]]]

\* DynamicImage::to_luma8: a grayscale pixel is kept, a colour pixel
\* becomes (2126 r + 7152 g + 722 b) / 10000, the alpha channel is dropped.
to_luma8(image) ==
    [image EXCEPT
        !.color = "L8",
        !.data =
            [y \in 1..image.height |-> [x \in 1..image.width |->
                LET p == image.data[y][x] IN
                IF image.color = "L8" THEN p
                ELSE <<(2126 * p[1] + 7152 * p[2] + 722 * p[3]) \div 10000>>]]]

\* threshold_mut with the comparison strict on the background side.
threshold_mut_strict(image, thresh) ==
    [image EXCEPT !.data =
        [y \in 1..image.height |-> [x \in 1..image.width |->
            IF image.data[y][x][1] < thresh THEN <<0>> ELSE <<255>>]]]

\* imageproc::contrast::threshold_mut: 0 when the intensity is at most
\* thresh, 255 otherwise.
threshold_mut(image, thresh) ==
    [image EXCEPT !.data =
        [y \in 1..image.height |-> [x \in 1..image.width |->
            IF image.data[y][x][1] <= thresh THEN <<0>> ELSE <<255>>]]]

\* hist.channels[0][t]: the pixels of intensity t.
histogram(image, t) ==
    Cardinality({c \in (1..image.width) \X (1..image.height) :
                    image.data[c[2]][c[1]][1] = t})

\* The intensities t with hist.channels[0][t] > 0.
Intensities(image) ==
    {image.data[c[2]][c[1]][1] : c \in (1..image.width) \X (1..image.height)}

\* total_pixel_sum: the sum of t * hist[t] over the intensities of `among`.
RECURSIVE total_pixel_sum(_, _)
total_pixel_sum(image, among) ==
    IF among = {} THEN 0
    ELSE LET t == CHOOSE v \in among : \A u \in among : v <= u
         IN  t * histogram(image, t) + total_pixel_sum(image, among \ {t})

\* The loop of otsu_level from threshold `from` on.  An iteration whose
\* hist_count is 0 leaves every variable of the loop as it is (its variance
\* is the one of the iteration before, which is not above
\* largest_variance), so the loop is taken from one intensity of the image
\* to the next.  The variance bw * fw * (bs / bw - fs / fw)^2 is held as the
\* fraction (bs * fw - fs * bw)^2 / (bw * fw), largest_variance as ln / ld.
RECURSIVE otsu_loop(_, _, _, _, _, _, _)
otsu_loop(image, from, background_weight, background_pixel_sum, ln, ld, best) ==
    LET rest == {v \in Intensities(image) : v >= from} IN
    IF rest = {} THEN best
    ELSE LET t  == CHOOSE v \in rest : \A u \in rest : v <= u
             hist_count == histogram(image, t)
             bw == background_weight + hist_count
             fw == image.width * image.height - bw
             bs == background_pixel_sum + t * hist_count
             fs == total_pixel_sum(image, Intensities(image)) - bs
             n  == (bs * fw - fs * bw) * (bs * fw - fs * bw)
             d  == bw * fw
         IN  IF fw = 0 THEN best
             ELSE IF n * ld > ln * d
                  THEN otsu_loop(image, t + 1, bw, bs, n, d, t)
                  ELSE otsu_loop(image, t + 1, bw, bs, ln, ld, best)

\* imageproc::contrast::otsu_level: the first threshold of the largest
\* between-class variance, 0 when no threshold splits the pixels.
otsu_level(image) == otsu_loop(image, 0, 0, 0, 0, 1, 0)

\* threshold_value with the inversion ignored.
threshold_value_not_inverted(op, level) == level

\* `match op.invert_threshold { true => 255 - otsu_level, false => otsu_level }`
threshold_value(op, level) ==
    IF op.invert_threshold THEN 255 - level ELSE level

\* crop that always starts at the origin.
crop_at_origin(image, op) ==
    LET x == Min(op.x, image.width)
        y == Min(op.y, image.height)
        width  == Min(op.width, image.width - x)
        height == Min(op.height, image.height - y)
    IN  [image EXCEPT !.width = width, !.height = height,
                      !.data = [j \in 1..height |->
                                   [k \in 1..width |-> image.data[j][k]]]]

\* DynamicImage::crop: the clamped rectangle, pixel (k, j) of the result
\* taken from (x + k, y + j).
crop(image, op) ==
    LET x == Min(op.x, image.width)
        y == Min(op.y, image.height)
        width  == Min(op.width, image.width - x)
        height == Min(op.height, image.height - y)
    IN  [image EXCEPT !.width = width, !.height = height,
                      !.data = [j \in 1..height |->
                                   [k \in 1..width |-> image.data[y + j][x + k]]]]

\* GenericImageView::get_pixel of DynamicImage: the pixel as Rgba<u8>.
to_rgba(p, color) ==
    CASE color = "L8"    -> <<p[1], p[1], p[1], 255>>
      [] color = "Rgb8"  -> <<p[1], p[2], p[3], 255>>
      [] color = "Rgba8" -> p

\* imageproc::drawing::draw_filled_rect: an RGBA copy of the image with the
\* pixels of the rectangle that lie on the canvas set to the colour.
draw_filled_rect(image, op) ==
    [image EXCEPT
        !.color = "Rgba8",
        !.data = [y \in 1..image.height |->
                     [x \in 1..image.width |->
                         IF /\ op.x <= x - 1 /\ x - 1 < op.x + op.width
                            /\ op.y <= y - 1 /\ y - 1 < op.y + op.height
                         THEN <<op.r, op.g, op.b, op.a>>
                         ELSE to_rgba(image.data[y][x], image.color)]]]

\* One arm of the match in ImageTransformer::transform, on pixel values.
\* The values gaussian_blur_f32 computes are not modelled.
ApplyPixels(image, op) ==
    CASE op.type = "invert"              -> invert(image)
      [] op.type = "binarize"            ->
            threshold_mut(to_luma8(image), op.threshold)
      [] op.type = "otsuBinarize"        ->
            threshold_mut(to_luma8(image),
                          threshold_value(op, otsu_level(to_luma8(image))))
      [] op.type = "crop"                -> crop(image, op)
      [] op.type = "drawFilledRectangle" -> draw_filled_rect(image, op)

-----------------------------------------------------------------------------
(* The arguments of TessBaseApi::set_image                                 *)

\* ColorType::bytes_per_pixel of the colour models of 8 bits per channel.
bytes_per_pixel(color) ==
    CASE color = "L8"    -> 1
      [] color = "Rgb8"  -> 3
      [] color = "Rgba8" -> 4
      [] OTHER           -> 0

\* DynamicImage::as_bytes: the length of the pixel buffer.
as_bytes(image) == image.width * image.height * bytes_per_pixel(image.color)

\* The arguments of one set_image call.
Geometry(len, width, height, bpp, bytes_per_line) ==
    [len |-> len, width |-> width, height |-> height,
     bytes_per_pixel |-> bpp, bytes_per_line |-> bytes_per_line]

NoGeometry == Geometry(0, 0, 0, 0, 0)

\* The server: bytes_per_pixel from the colour of the image, bytes_per_line
\* its product with the width.
SetImageArguments(image) ==
    LET bpp == bytes_per_pixel(image.color)
        bytes_per_line == bpp * image.width
    IN  Geometry(as_bytes(image), image.width, image.height, bpp,
                 bytes_per_line)

\* The command-line program: 3 bytes per pixel and 3 * width bytes per
\* line, whatever the image.
CliSetImageArguments(img) ==
    Geometry(as_bytes(img), img.width, img.height, 3, 3 * img.width)

-----------------------------------------------------------------------------
(* Request decoding: impl TryFrom<TypedMultipart<MultipartRequest>> for Ocr *)

NoError == [what |-> "", status |-> 0, detail |-> ""]

\* The `type` tags of OperationRequest and the names of OcrEngineRequest.
OperationTags ==
    {"invert", "binarize", "otsuBinarize", "crop", "drawFilledRectangle",
     "gaussianBlur"}

EngineNames == {"tesseract", "googleLens"}

\* image::load_from_memory on the multipart `image` part.
LoadFromMemory(bytes) ==
    IF bytes.decodes
    THEN [ok |-> TRUE, image |-> bytes.image, error |-> NoError]
    ELSE [ok |-> FALSE, image |-> NoImage,
          error |-> [what |-> "image", status |-> 0, detail |-> "decode"]]

\* serde_json::from_str::<OcrRequest> on the multipart `request` part: the
\* text must be JSON, `ocrEngine` a known name, and every operation carry a
\* known `type` tag.
FromStr(request) ==
    /\ request.json
    /\ request.ocrEngine \in EngineNames
    /\ \A k \in 1..Len(request.operations) :
          request.operations[k].type \in OperationTags

NoOcr == [ok |-> FALSE, image |-> NoImage, ocr_engine |-> "none",
          operations |-> <<>>, error |-> NoError]

TryFrom(multipart) ==
    LET image == LoadFromMemory(multipart.image) IN
    IF ~image.ok THEN [NoOcr EXCEPT !.error = image.error]
    ELSE IF ~FromStr(multipart.request)
    THEN [NoOcr EXCEPT !.error =
             [what |-> "request", status |-> 0, detail |-> "parse"]]
    ELSE [ok |-> TRUE, image |-> image.image,
          ocr_engine |-> multipart.request.ocrEngine,
          operations |-> multipart.request.operations, error |-> NoError]

-----------------------------------------------------------------------------
(* Google Lens engine: GoogleLensOcrEngine::ocr                            *)

\* The text of a word, then its separator when it has one.
WordText(word) == <<word.plain_text>> \o word.text_separator

RECURSIVE WordsText(_)
WordsText(words) ==
    IF words = <<>> THEN <<>>
    ELSE WordText(Head(words)) \o WordsText(Tail(words))

RECURSIVE LinesText(_)
LinesText(lines) ==
    IF lines = <<>> THEN <<>>
    ELSE WordsText(Head(lines).words) \o LinesText(Tail(lines))

RECURSIVE ParagraphsTextNoBreak(_)
ParagraphsTextNoBreak(paragraphs) ==
    IF paragraphs = <<>> THEN <<>>
    ELSE LinesText(Head(paragraphs).lines)
         \o ParagraphsTextNoBreak(Tail(paragraphs))

RECURSIVE ParagraphsText(_)
ParagraphsText(paragraphs) ==
    IF paragraphs = <<>> THEN <<>>
    ELSE LinesText(Head(paragraphs).lines) \o <<"\n">>
         \o ParagraphsText(Tail(paragraphs))

\* The walk over objects_response, text and text_layout; an absent Option
\* is the empty sequence.
ExtractText(response) ==
    IF response.objects_response = <<>> THEN <<>>
    ELSE LET text == response.objects_response[1].text IN
         IF text = <<>> THEN <<>>
         ELSE LET layout == text[1].text_layout IN
              IF layout = <<>> THEN <<>>
              ELSE ParagraphsText(layout[1].paragraphs)

\* StatusCode::is_success.
IsSuccess(status) == status >= 200 /\ status <= 299

NoResult == [kind |-> "none", text |-> <<>>, error |-> NoError]

\* A run of GoogleLensOcrEngine::ocr on the outcome of the HTTP exchange:
\* Ok(text), Err(error), or a panic of one of the unwraps.
LensOcrIgnoresStatus(reply) ==
    IF ~reply.sent
    THEN [NoResult EXCEPT !.kind = "err",
             !.error = [what |-> "send", status |-> 0, detail |-> reply.cause]]
    ELSE IF ~reply.readable \/ ~reply.body.decodes
    THEN [NoResult EXCEPT !.kind = "panic"]
    ELSE [NoResult EXCEPT !.kind = "ok",
             !.text = ExtractText(reply.body.message)]

LensOcr(reply) ==
    IF ~reply.sent
    THEN [NoResult EXCEPT !.kind = "err",
             !.error = [what |-> "send", status |-> 0, detail |-> reply.cause]]
    ELSE IF ~IsSuccess(reply.status)
    THEN IF reply.readable
         THEN [NoResult EXCEPT !.kind = "err",
                  !.error = [what |-> "status", status |-> reply.status,
                             detail |-> reply.body.text]]
         ELSE [NoResult EXCEPT !.kind = "panic"]
    ELSE IF ~reply.readable \/ ~reply.body.decodes
    THEN [NoResult EXCEPT !.kind = "panic"]
    ELSE [NoResult EXCEPT !.kind = "ok",
             !.text = ExtractText(reply.body.message)]

\* The PNG encoder refuses an image without pixels.
PngEncodes(image) == image.width > 0 /\ image.height > 0

-----------------------------------------------------------------------------
(* Inputs and environment                                                  *)

Image(w, h, c) == [width |-> w, height |-> h, color |-> c]

OpInvert == [type |-> "invert"]
OpBinarize == [type |-> "binarize", threshold |-> 128]
OpOtsuBinarize == [type |-> "otsuBinarize", invert_threshold |-> FALSE]
OpCrop(x, y, w, h) ==
    [type |-> "crop", x |-> x, y |-> y, width |-> w, height |-> h]
OpDraw(x, y, w, h) ==
    [type |-> "drawFilledRectangle", x |-> x, y |-> y, width |-> w,
     height |-> h, r |-> 255, g |-> 0, b |-> 0, a |-> 255]
OpBlur(sigma) == [type |-> "gaussianBlur", sigma |-> sigma]
\* An operation whose `type` tag OperationRequest does not know.
OpRotate == [type |-> "rotate"]

Bytes(image) == [decodes |-> TRUE, image |-> image]
Garbage == [decodes |-> FALSE, image |-> NoImage]

Request(engine, operations) ==
    [json |-> TRUE, ocrEngine |-> engine, operations |-> operations]
NotJson == [json |-> FALSE, ocrEngine |-> "", operations |-> <<>>]

NoMultipart == [image |-> Garbage, request |-> NotJson]

\* All operation lists over `ops` of length at most n.
OpLists(ops, n) == UNION {[1..k -> ops] : k \in 0..n}

\* Requests of the server specification.
ServerRequests ==
    {[image |-> Bytes(Image(2, 2, "Rgb8")),
      request |-> Request("tesseract", <<OpInvert>>)],
     [image |-> Bytes(Image(2, 2, "Rgb8")),
      request |-> Request("googleLens", <<OpBinarize, OpDraw(-1, 0, 2, 1)>>)],
     [image |-> Garbage, request |-> Request("tesseract", <<OpInvert>>)],
     [image |-> Bytes(Image(2, 2, "Rgb8")), request |-> NotJson],
     [image |-> Bytes(Image(2, 2, "Rgb8")),
      request |-> Request("googleLens", <<OpRotate>>)]}

\* Requests of the pipeline specification.
PipeOps ==
    {OpInvert, OpBinarize, OpOtsuBinarize,
     OpCrop(0, 0, 1, 2), OpCrop(1, 1, 1, 1), OpCrop(1, 0, 2, 2),
     OpCrop(0, 1, 3, 3), OpCrop(3, 0, 1, 1),
     OpDraw(-1, 0, 2, 1), OpDraw(0, 0, 0, 1),
     OpBlur(15), OpBlur(0), OpBlur(-10)}

PipeImages == {Image(2, 2, "Rgb8"), Image(3, 2, "Rgba8"), Image(2, 3, "L8")}

PipeRequests ==
    {[image |-> Bytes(im), request |-> Request(e, ops)] :
        im \in PipeImages, e \in EngineNames, ops \in OpLists(PipeOps, MaxOps)}
    \cup {[image |-> Garbage, request |-> Request("tesseract", <<OpCrop(1, 0, 2, 2)>>)],
          [image |-> Bytes(Image(2, 2, "Rgb8")), request |-> NotJson],
          [image |-> Bytes(Image(2, 2, "Rgb8")),
           request |-> Request("tesseract", <<OpInvert, OpRotate>>)],
          [image |-> Bytes(Image(2, 2, "Rgb8")),
           request |-> Request("bing", <<OpInvert>>)]}

\* Texts the Tesseract handle returns.
TesseractTexts == {<<"ABC">>, <<"A", " ", "B", "\n">>}

Word(t, sep) == [plain_text |-> t, text_separator |-> sep]
Layout(paragraphs) ==
    [objects_response |->
        <<[text |-> <<[text_layout |-> <<[paragraphs |-> paragraphs]>>]>>]>>]
NoObjects == [objects_response |-> <<>>]
TwoParagraphs ==
    Layout(<<[lines |-> <<[words |-> <<Word("word1", <<" ">>),
                                       Word("word2", <<>>)>>]>>],
             [lines |-> <<[words |-> <<Word("word3", <<" ">>),
                                       Word("word4", <<>>)>>]>>]>>)

NoBody == [text |-> "", decodes |-> FALSE, message |-> NoObjects]
NoReply == [sent |-> FALSE, cause |-> "", status |-> 0, readable |-> FALSE,
            body |-> NoBody]

\* Outcomes of the HTTP exchange with the Lens endpoint: the send fails, or
\* a status arrives and the body is read (or the read fails).
LensReplies ==
    {[NoReply EXCEPT !.cause = "connect"],
     [NoReply EXCEPT !.sent = TRUE, !.status = 503, !.readable = TRUE,
                     !.body = [NoBody EXCEPT !.text = "unavailable"]],
     [NoReply EXCEPT !.sent = TRUE, !.status = 503],
     [NoReply EXCEPT !.sent = TRUE, !.status = 200],
     [NoReply EXCEPT !.sent = TRUE, !.status = 200, !.readable = TRUE],
     [NoReply EXCEPT !.sent = TRUE, !.status = 200, !.readable = TRUE,
                     !.body = [NoBody EXCEPT !.decodes = TRUE]],
     [NoReply EXCEPT !.sent = TRUE, !.status = 200, !.readable = TRUE,
                     !.body = [NoBody EXCEPT !.decodes = TRUE,
                                             !.message = TwoParagraphs]]}

\* Responses of the Lens specification: every layout of up to MaxParagraphs
\* paragraphs of up to MaxLines lines, and the responses without objects
\* response, without text and without text layout.
LineSet ==
    {[words |-> <<Word("a", <<" ">>), Word("b", <<>>)>>],
     [words |-> <<Word("c", <<>>)>>]}

ParagraphSet ==
    {[lines |-> ls] : ls \in UNION {[1..k -> LineSet] : k \in 0..MaxLines}}

LensMessages ==
    {Layout(ps) : ps \in UNION {[1..k -> ParagraphSet] : k \in 0..MaxParagraphs}}
    \cup {NoObjects,
          [objects_response |-> <<[text |-> <<>>]>>],
          [objects_response |-> <<[text |-> <<[text_layout |-> <<>>]>>]>>]}

LensLayoutReplies ==
    {[NoReply EXCEPT !.sent = TRUE, !.status = 200, !.readable = TRUE,
                     !.body = [NoBody EXCEPT !.decodes = TRUE, !.message = m]] :
        m \in LensMessages}

LensRequests ==
    {[image |-> Bytes(Image(2, 2, "Rgb8")),
      request |-> Request("googleLens", <<OpInvert>>)]}

\* Inputs of the pixel specification: the grayscale images of 2 x 2 pixels
\* over four intensities, and the RGB images of 2 x 2 pixels over three
\* colours of luma 54, 128 and 18.
GrayImages ==
    {Pixels(2, 2, "L8", data) :
        data \in [1..2 -> [1..2 -> {<<0>>, <<128>>, <<129>>, <<255>>}]]}

RgbImages ==
    {Pixels(2, 2, "Rgb8", data) :
        data \in [1..2 -> [1..2 -> {<<255, 0, 0>>, <<128, 128, 128>>,
                                    <<0, 0, 255>>}]]}

PixelImages == GrayImages \cup RgbImages

Thresholds == {0, 54, 128, 255}

CropRects ==
    {OpCrop(0, 0, 2, 2), OpCrop(1, 0, 1, 2), OpCrop(0, 1, 2, 1),
     OpCrop(1, 1, 1, 1), OpCrop(0, 0, 1, 1), OpCrop(1, 1, 2, 2)}

DrawRects == {OpDraw(-1, 0, 2, 1), OpDraw(1, 1, 5, 5)}

NoPixels == Pixels(0, 0, "none", <<>>)
NoOperation == [type |-> "none"]

\* Inputs of the command-line program: the images image::load_from_memory
\* can return for the bytes read, in the three colour models of 8 bits per
\* channel, or bytes that are no image; and the subcommand.
CliImages ==
    {Image(w, h, c) : w \in {1, 2, 3}, h \in {1, 2},
                      c \in {"L8", "Rgb8", "Rgba8"}}

CliInputs ==
    {[buffer |-> b, ocr_engine |-> e] :
        b \in {Bytes(im) : im \in CliImages} \cup {Garbage},
        e \in EngineNames}

\* Texts the Lens arm of the command-line program extracts.
CliLensTexts == {<<>>, <<"word1", "word2">>}

NoCli == [pc |-> "start", ocr_engine |-> "", img |-> NoImage,
          given |-> NoGeometry, text |-> <<>>, output |-> <<>>]

-----------------------------------------------------------------------------
(* State                                                                   *)

VARIABLES
    pc,                \* where each request's handler task is
    multipart,         \* the multipart body of each request
    image_transformer, \* ImageTransformer.image of each request
    i,                 \* operations of the list transform has gone through
    log,               \* operations transform has announced on stdout
    invoked,           \* the engine each request has called
    reply,             \* outcome of the request's HTTP exchange with Lens
    text,              \* Ok(text) of OcrEngineManager::ocr
    sent,              \* texts the request has passed to send_message
    response,          \* the HTTP response of each request
    panic_at,          \* where the request's task panicked, "" if it did not
    api,               \* TesseractOcrEngine.api: the mutex and its handle
    output_png,        \* the file output.png
    main,              \* where `main` is
    listener,          \* the TcpListener of the HTTP server is bound
    pixels,            \* ImageTransformer.image with its pixel values
    source,            \* the image the last operation was applied to
    operation,         \* the last operation applied to the pixel values
    steps,             \* how many operations were applied to them
    cli                \* the command-line program `ocr`

vars == <<pc, multipart, image_transformer, i, log, invoked, reply, text,
          sent, response, panic_at, api, output_png, main, listener,
          pixels, source, operation, steps, cli>>

\* The variables of the pixel specification.
pixel == <<pixels, source, operation, steps>>

NoResponse == [status |-> 0, body |-> NoError]

InitServer ==
    /\ pc = [r \in Reqs |-> "new"]
    /\ multipart = [r \in Reqs |-> NoMultipart]
    /\ image_transformer = [r \in Reqs |-> NoImage]
    /\ i = [r \in Reqs |-> 0]
    /\ log = [r \in Reqs |-> <<>>]
    /\ invoked = [r \in Reqs |-> "none"]
    /\ reply = [r \in Reqs |-> NoReply]
    /\ text = [r \in Reqs |-> <<>>]
    /\ sent = [r \in Reqs |-> <<>>]
    /\ response = [r \in Reqs |-> NoResponse]
    /\ panic_at = [r \in Reqs |-> ""]
    /\ api = [holder |-> 0, poisoned |-> FALSE, set_by |-> 0,
              initialized |-> FALSE, given |-> NoGeometry]
    /\ output_png = NoImage
    /\ main = "start"
    /\ listener = FALSE
    /\ source = NoPixels
    /\ operation = NoOperation
    /\ steps = 0
    /\ cli = NoCli

Init == InitServer /\ pixels = NoPixels

\* An ImageTransformer over one of the images of PixelImages.
InitPixel == InitServer /\ pixels \in PixelImages

\* The request as parsed by the handler.
Ocr(r) == TryFrom(multipart[r])

\* The task of r unwinds at `where`.
Panic(r, where) ==
    /\ pc' = [pc EXCEPT ![r] = "done"]
    /\ panic_at' = [panic_at EXCEPT ![r] = where]

-----------------------------------------------------------------------------
(* `main`, step by step                                                    *)

\* The variables of the handler tasks.
handler == <<pc, multipart, image_transformer, i, log, invoked, reply, text,
             sent, response, panic_at, output_png>>

\* websocket::Server::new(..).start(): the websocket server is started first.
StartWebsocket ==
    /\ main = "start"
    /\ main' = "init_tesseract"
    /\ UNCHANGED <<handler, pixel, cli, api, listener>>

\* `.unwrap()` of init_4 with the failure ignored.
AfterInitIgnoresFailure(ok) == "bind"

\* `.unwrap()` of init_4: main goes on when Tesseract is initialised, and
\* panics, which ends the process, when it is not.
AfterInit(ok) == IF ok THEN "bind" ELSE "exited"

\* TessBaseApi::create() and api.init_4("tessdata", "jpn", ..).unwrap().
\* Whether tessdata loads is the environment's choice.
InitTesseract ==
    /\ main = "init_tesseract"
    /\ \E ok \in BOOLEAN :
          /\ api' = [api EXCEPT !.initialized = ok]
          /\ main' = AfterInit(ok)
    /\ UNCHANGED <<handler, pixel, cli, listener>>

\* TcpListener::bind(0.0.0.0:9090).await.unwrap(): the port is bound, or
\* main panics.
Bind ==
    /\ main = "bind"
    /\ \/ listener' = TRUE /\ main' = "serve"
       \/ listener' = FALSE /\ main' = "exited"
    /\ UNCHANGED <<handler, pixel, cli, api>>

\* axum::serve(listener, app): requests are accepted from here on.
Serve ==
    /\ main = "serve"
    /\ main' = "serving"
    /\ UNCHANGED <<handler, pixel, cli, api, listener>>

-----------------------------------------------------------------------------
(* The handler `ocr`, step by step                                         *)

\* Ocr::try_from(multipart), and the BAD_REQUEST response when it fails.
\* The request is one of `requests`.
Receive(r, requests) ==
    /\ pc[r] = "new"
    /\ main = "serving"
    /\ UNCHANGED <<main, listener, pixel, cli>>
    /\ \E mp \in requests :
          LET ocr == TryFrom(mp) IN
          /\ multipart' = [multipart EXCEPT ![r] = mp]
          /\ IF ocr.ok
             THEN /\ image_transformer' =
                        [image_transformer EXCEPT ![r] = ocr.image]
                  /\ pc' = [pc EXCEPT ![r] =
                               IF ocr.operations = <<>>
                               THEN "engine" ELSE "transform"]
                  /\ UNCHANGED response
             ELSE /\ response' = [response EXCEPT ![r] =
                                     [status |-> 400, body |-> ocr.error]]
                  /\ pc' = [pc EXCEPT ![r] = "done"]
                  /\ UNCHANGED image_transformer
    /\ UNCHANGED <<i, log, invoked, reply, text, sent, panic_at, api,
                   output_png>>

\* One iteration of the loop of ImageTransformer::transform.
TransformStep(r) ==
    /\ pc[r] = "transform"
    /\ UNCHANGED <<main, listener, pixel, cli>>
    /\ LET operations == Ocr(r).operations
           op == NextOperation(operations, i[r])
       IN  /\ log' = [log EXCEPT ![r] = Append(@, op)]
           /\ IF OpPanics(image_transformer[r], op)
              THEN /\ Panic(r, "transform")
                   /\ UNCHANGED <<image_transformer, i>>
              ELSE /\ image_transformer' =
                        [image_transformer EXCEPT ![r] = ApplyOp(@, op)]
                   /\ i' = [i EXCEPT ![r] = @ + 1]
                   /\ pc' = [pc EXCEPT ![r] =
                                IF i[r] + 1 = Len(operations)
                                THEN "engine" ELSE "transform"]
                   /\ UNCHANGED panic_at
    /\ UNCHANGED <<multipart, invoked, reply, text, sent, response, api,
                   output_png>>

\* Mutex::lock returns once no other thread holds the mutex.
MutexAvailableAlways(m) == TRUE

MutexAvailable(m) == m.holder = 0

\* MutexGuard::drop: the guard dropped by an unwinding thread poisons the
\* mutex.
Unlock(m, panicking) ==
    [m EXCEPT !.holder = 0, !.poisoned = m.poisoned \/ panicking]

\* The match with every request sent to Tesseract.
DispatchAlwaysTesseract(ocr_engine) == "tesseract"

\* The match of OcrEngineManager::ocr: the engine whose ocr is called.
Dispatch(ocr_engine) ==
    CASE ocr_engine = "tesseract"  -> "tesseract"
      [] ocr_engine = "googleLens" -> "googleLens"

\* TesseractOcrEngine::ocr up to `self.api.lock().unwrap()`.
TesseractLock(r) ==
    /\ pc[r] = "engine"
    /\ UNCHANGED <<main, listener, pixel, cli>>
    /\ Dispatch(Ocr(r).ocr_engine) = "tesseract"
    /\ MutexAvailable(api)
    /\ invoked' = [invoked EXCEPT ![r] = "tesseract"]
    /\ IF api.poisoned
       THEN /\ Panic(r, "lock")
            /\ UNCHANGED api
       ELSE /\ api' = [api EXCEPT !.holder = r]
            /\ pc' = [pc EXCEPT ![r] = "set_image"]
            /\ UNCHANGED panic_at
    /\ UNCHANGED <<multipart, image_transformer, i, log, reply, text, sent,
                   response, output_png>>

\* bytes_per_pixel, bytes_per_line and lock.set_image(...).unwrap()
SetImage(r) ==
    /\ pc[r] = "set_image"
    /\ UNCHANGED <<main, listener, pixel, cli>>
    /\ \E ok \in BOOLEAN :
          LET called == [api EXCEPT
                            !.given = SetImageArguments(image_transformer[r])]
          IN  IF ok
              THEN /\ api' = [called EXCEPT !.set_by = r]
                   /\ pc' = [pc EXCEPT ![r] = "get_text"]
                   /\ UNCHANGED panic_at
              ELSE /\ Panic(r, "set_image")
                   /\ api' = Unlock(called, TRUE)
    /\ UNCHANGED <<multipart, image_transformer, i, log, invoked, reply, text,
                   sent, response, output_png>>

\* lock.get_utf8_text().unwrap()...to_str().unwrap().to_owned(), then the
\* guard goes out of scope.
GetText(r) ==
    /\ pc[r] = "get_text"
    /\ UNCHANGED <<main, listener, pixel, cli>>
    /\ \/ \E t \in TesseractTexts :
            /\ text' = [text EXCEPT ![r] = t]
            /\ api' = Unlock(api, FALSE)
            /\ pc' = [pc EXCEPT ![r] = "deliver"]
            /\ UNCHANGED panic_at
       \/ /\ Panic(r, "get_text")
          /\ api' = Unlock(api, TRUE)
          /\ UNCHANGED text
    /\ UNCHANGED <<multipart, image_transformer, i, log, invoked, reply, sent,
                   response, output_png>>

\* GoogleLensOcrEngine::ocr up to `.send().await`.
LensSend(r) ==
    /\ pc[r] = "engine"
    /\ UNCHANGED <<main, listener, pixel, cli>>
    /\ Dispatch(Ocr(r).ocr_engine) = "googleLens"
    /\ invoked' = [invoked EXCEPT ![r] = "googleLens"]
    /\ IF PngEncodes(image_transformer[r])
       THEN /\ pc' = [pc EXCEPT ![r] = "lens_await"]
            /\ UNCHANGED panic_at
       ELSE Panic(r, "png")
    /\ UNCHANGED <<multipart, image_transformer, i, log, reply, text, sent,
                   response, api, output_png>>

\* The rest of GoogleLensOcrEngine::ocr, and the INTERNAL_SERVER_ERROR
\* response of the handler on Err.  The exchange ends as one of `replies`.
LensReply(r, replies) ==
    /\ pc[r] = "lens_await"
    /\ UNCHANGED <<main, listener, pixel, cli>>
    /\ \E rep \in replies :
          LET result == LensOcr(rep) IN
          /\ reply' = [reply EXCEPT ![r] = rep]
          /\ CASE result.kind = "ok" ->
                    /\ text' = [text EXCEPT ![r] = result.text]
                    /\ pc' = [pc EXCEPT ![r] = "deliver"]
                    /\ UNCHANGED <<response, panic_at>>
               [] result.kind = "err" ->
                    /\ response' = [response EXCEPT ![r] =
                                       [status |-> 500, body |-> result.error]]
                    /\ pc' = [pc EXCEPT ![r] = "done"]
                    /\ UNCHANGED <<text, panic_at>>
               [] OTHER ->
                    /\ Panic(r, "lens")
                    /\ UNCHANGED <<text, response>>
    /\ UNCHANGED <<multipart, image_transformer, i, log, invoked, sent, api,
                   output_png>>

\* The call left out.
send_message_skipped(messages, message) == messages

\* ServerStarted::send_message as the handler sees it: one more message
\* handed to the websocket server.
send_message(messages, message) == Append(messages, message)

\* state.websocket_server.send_message(text)
Deliver(r) ==
    /\ pc[r] = "deliver"
    /\ UNCHANGED <<main, listener, pixel, cli>>
    /\ sent' = [sent EXCEPT ![r] = send_message(@, text[r])]
    /\ pc' = [pc EXCEPT ![r] = "save"]
    /\ UNCHANGED <<multipart, image_transformer, i, log, invoked, reply, text,
                   response, panic_at, api, output_png>>

\* image_transformer.image().save("output.png").unwrap(), then the OK
\* response with an empty body.
Save(r) ==
    /\ pc[r] = "save"
    /\ UNCHANGED <<main, listener, pixel, cli>>
    /\ \E written \in BOOLEAN :
          IF written /\ PngEncodes(image_transformer[r])
          THEN /\ output_png' = image_transformer[r]
               /\ response' = [response EXCEPT ![r] =
                                  [status |-> 200, body |-> NoError]]
               /\ pc' = [pc EXCEPT ![r] = "done"]
               /\ UNCHANGED panic_at
          ELSE /\ Panic(r, "save")
               /\ UNCHANGED <<output_png, response>>
    /\ UNCHANGED <<multipart, image_transformer, i, log, invoked, reply, text,
                   sent, api>>

\* The server: NumReq requests handled concurrently.
Next ==
    \/ StartWebsocket
    \/ InitTesseract
    \/ Bind
    \/ Serve
    \/ \E r \in Reqs :
        \/ Receive(r, ServerRequests)
        \/ TransformStep(r)
        \/ TesseractLock(r)
        \/ SetImage(r)
        \/ GetText(r)
        \/ LensSend(r)
        \/ LensReply(r, LensReplies)
        \/ Deliver(r)
        \/ Save(r)

Spec == Init /\ [][Next]_vars

\* The server with every native call terminating: a task that can take the
\* mutex does take it, and set_image and get_utf8_text return.
NativeCallsTerminate ==
    \A r \in Reqs :
        /\ WF_vars(TesseractLock(r))
        /\ WF_vars(SetImage(r))
        /\ WF_vars(GetText(r))

SpecFair == Spec /\ NativeCallsTerminate

\* One request at a time, over every operation list up to MaxOps.
NextPipe ==
    \/ StartWebsocket
    \/ InitTesseract
    \/ Bind
    \/ Serve
    \/ Receive(1, PipeRequests)
    \/ TransformStep(1)
    \/ TesseractLock(1)
    \/ SetImage(1)
    \/ GetText(1)
    \/ LensSend(1)
    \/ LensReply(1, LensReplies)
    \/ Deliver(1)
    \/ Save(1)

SpecPipe == Init /\ [][NextPipe]_vars

\* One Lens request, over every response of LensReplies and
\* LensLayoutReplies.
NextLens ==
    \/ StartWebsocket
    \/ InitTesseract
    \/ Bind
    \/ Serve
    \/ Receive(1, LensRequests)
    \/ TransformStep(1)
    \/ LensSend(1)
    \/ LensReply(1, LensReplies \cup LensLayoutReplies)
    \/ Deliver(1)
    \/ Save(1)

SpecLens == Init /\ [][NextLens]_vars

-----------------------------------------------------------------------------
(* ImageTransformer::transform on pixel values, one operation per step     *)

\* One iteration of the loop of transform, with operation op.
Transform(op) ==
    /\ steps < MaxOps
    /\ pixels' = ApplyPixels(pixels, op)
    /\ source' = pixels
    /\ operation' = op
    /\ steps' = steps + 1
    /\ UNCHANGED <<handler, api, main, listener, cli>>

InvertStep == Transform(OpInvert)

BinarizeStep ==
    \E threshold \in Thresholds :
        Transform([OpBinarize EXCEPT !.threshold = threshold])

OtsuBinarizeStep ==
    \E invert_threshold \in BOOLEAN :
        Transform([OpOtsuBinarize EXCEPT !.invert_threshold = invert_threshold])

CropStep == \E op \in CropRects : Transform(op)

DrawFilledRectangleStep ==
    \E op \in DrawRects :
        /\ ~OpPanics(Dimensions(pixels), op)
        /\ Transform(op)

\* Every list of at most MaxOps operations, on every image of PixelImages.
NextPixel ==
    \/ InvertStep
    \/ BinarizeStep
    \/ OtsuBinarizeStep
    \/ CropStep
    \/ DrawFilledRectangleStep

SpecPixel == InitPixel /\ [][NextPixel]_vars

-----------------------------------------------------------------------------
(* The command-line program `ocr`, step by step                            *)

\* The variables of the server and of the pixel specification.
server == <<handler, api, main, listener, pixel>>

\* Cli::parse, the bytes read from the input, and
\* image::load_from_memory(..).unwrap().
CliRead ==
    /\ cli.pc = "start"
    /\ \E input \in CliInputs :
          cli' = IF LoadFromMemory(input.buffer).ok
                 THEN [cli EXCEPT !.pc = "engine",
                                  !.ocr_engine = input.ocr_engine,
                                  !.img = LoadFromMemory(input.buffer).image]
                 ELSE [cli EXCEPT !.pc = "panicked",
                                  !.ocr_engine = input.ocr_engine]
    /\ UNCHANGED server

\* TessBaseApi::create() and api.init_4(..).unwrap().
CliInitTesseract ==
    /\ cli.pc = "engine"
    /\ cli.ocr_engine = "tesseract"
    /\ \E ok \in BOOLEAN :
          cli' = [cli EXCEPT !.pc = IF ok THEN "set_image" ELSE "panicked"]
    /\ UNCHANGED server

\* api.set_image(img.as_bytes(), width, height, 3, 3 * width).unwrap()
CliSetImage ==
    /\ cli.pc = "set_image"
    /\ \E ok \in BOOLEAN :
          cli' = [cli EXCEPT !.given = CliSetImageArguments(cli.img),
                             !.pc = IF ok THEN "get_text" ELSE "panicked"]
    /\ UNCHANGED server

\* api.get_utf8_text().unwrap()...to_owned()
CliGetText ==
    /\ cli.pc = "get_text"
    /\ \/ \E t \in TesseractTexts :
            cli' = [cli EXCEPT !.text = t, !.pc = "write"]
       \/ cli' = [cli EXCEPT !.pc = "panicked"]
    /\ UNCHANGED server

\* The arm OcrEngine::GoogleLens: the upload and the text of the answer, or
\* one of its panics.
CliGoogleLens ==
    /\ cli.pc = "engine"
    /\ cli.ocr_engine = "googleLens"
    /\ \/ \E t \in CliLensTexts :
            cli' = [cli EXCEPT !.text = t, !.pc = "write"]
       \/ cli' = [cli EXCEPT !.pc = "panicked"]
    /\ UNCHANGED server

\* writer.write_all(text.as_bytes()).unwrap() on the output file or STDOUT.
CliWrite ==
    /\ cli.pc = "write"
    /\ \/ cli' = [cli EXCEPT !.output = cli.text, !.pc = "done"]
       \/ cli' = [cli EXCEPT !.pc = "panicked"]
    /\ UNCHANGED server

NextCli ==
    \/ CliRead
    \/ CliInitTesseract
    \/ CliSetImage
    \/ CliGetText
    \/ CliGoogleLens
    \/ CliWrite

SpecCli == Init /\ [][NextCli]_vars

-----------------------------------------------------------------------------
(* Claims                                                                  *)

Last(seq) == seq[Len(seq)]

IsPrefix(a, b) == Len(a) <= Len(b) /\ a = SubSeq(b, 1, Len(a))

\* A request is inside the native call region from set-image to the end of
\* extract-text.
InNative(r) == pc[r] \in {"set_image", "get_text"}

\* C1: at most one request is between the start of set-image and the end of
\* extract-text at any instant; the lock is held for the whole sequence, and
\* the image on the handle when a request extracts text is the one that
\* request set.
C1_SingleFlight ==
    /\ Cardinality({r \in Reqs : InNative(r)}) <= 1
    /\ \A r \in Reqs : InNative(r) => api.holder = r
    /\ \A r \in Reqs : pc[r] = "get_text" => api.set_by = r

\* One request is about to extract text while another waits for the lock.
C1_Witness ==
    \E r, q \in Reqs :
        /\ r # q
        /\ pc[r] = "get_text"
        /\ pc[q] = "engine"
        /\ Ocr(q).ocr_engine = "tesseract"

\* The rectangle of a crop is not fully inside the image.
CropOutOfBounds(image, op) ==
    op.x + op.width > image.width \/ op.y + op.height > image.height

\* Some crop of the list is out of the bounds of the image it is applied to,
\* or some blur has sigma <= 0.
RECURSIVE PipelineInvalid(_, _)
PipelineInvalid(image, operations) ==
    IF operations = <<>> THEN FALSE
    ELSE LET op == Head(operations) IN
         \/ op.type = "crop" /\ CropOutOfBounds(image, op)
         \/ op.type = "gaussianBlur" /\ op.sigma <= 0
         \/ PipelineInvalid(ApplyOp(image, op), Tail(operations))

\* The request is one the specification rejects with ValidationError.
ValidationFails(mp) ==
    \/ ~mp.image.decodes
    \/ ~mp.request.json
    \/ mp.request.ocrEngine \notin EngineNames
    \/ \E k \in 1..Len(mp.request.operations) :
          mp.request.operations[k].type \notin OperationTags
    \/ PipelineInvalid(mp.image.image, mp.request.operations)

\* C2: a request with undecodable image bytes, an unparsable request
\* structure (unknown `type` tag included), a crop rectangle out of bounds or
\* sigma <= 0 is rejected before any engine call: no engine is invoked,
\* send_message is not called and no text is extracted.
C2_RejectedBeforeEngine ==
    \A r \in Reqs :
        (pc[r] # "new" /\ ValidationFails(multipart[r]))
            => /\ invoked[r] = "none"
               /\ sent[r] = <<>>
               /\ text[r] = <<>>

\* The image after applying the operations one after the other, each to the
\* result of the one before.
RECURSIVE TransformAll(_, _)
TransformAll(image, operations) ==
    IF operations = <<>> THEN image
    ELSE TransformAll(ApplyOp(image, Head(operations)), Tail(operations))

\* C3: the operations are applied in the order of the list, one at a time,
\* each to the image the previous one produced, none skipped or repeated,
\* and the engine is called only after the last one.
C3_InputOrder ==
    \A r \in Reqs :
        (pc[r] # "new" /\ Ocr(r).ok) =>
            LET operations == Ocr(r).operations IN
            /\ IsPrefix(log[r], operations)
            /\ Len(log[r]) = (IF panic_at[r] = "transform" THEN i[r] + 1 ELSE i[r])
            /\ image_transformer[r] =
                  TransformAll(Ocr(r).image, SubSeq(operations, 1, i[r]))
            /\ (invoked[r] # "none" => log[r] = operations)

\* An engine has been called with the result of two different operations.
C3_Witness ==
    \E r \in Reqs :
        /\ invoked[r] # "none"
        /\ Len(Ocr(r).operations) >= 2
        /\ Ocr(r).operations[1] # Ocr(r).operations[2]
        /\ image_transformer[r] # Ocr(r).image

\* The iteration of transform that r takes in this step, if it takes one.
Announces(r, type) ==
    /\ pc[r] = "transform"
    /\ log'[r] # log[r]
    /\ Last(log'[r]).type = type

\* C4: a crop whose rectangle is not fully inside the current image fails
\* with ValidationError; it never leaves a clamped or smaller image.
C4_CropOutOfBoundsFails ==
    [][\A r \in Reqs :
          (Announces(r, "crop")
             /\ CropOutOfBounds(image_transformer[r], Last(log'[r])))
          => /\ response'[r].status = 400
             /\ image_transformer'[r] = image_transformer[r]]_vars

\* C5: a blur with sigma <= 0 fails with ValidationError, as an error value
\* and not by aborting the request; with sigma > 0 it yields a grayscale
\* image of the same width and height.
C5_GaussianBlurSigma ==
    [][\A r \in Reqs :
          Announces(r, "gaussianBlur") =>
             IF Last(log'[r]).sigma <= 0
             THEN response'[r].status = 400 /\ panic_at'[r] = ""
             ELSE /\ panic_at'[r] = ""
                  /\ image_transformer'[r] =
                        [image_transformer[r] EXCEPT !.color = "L8"]]_vars

\* Whitespace that is not a line break.
IsBlank(piece) == piece \in {" ", "\t"}

\* All whitespace inside the lines removed, line breaks kept.
RECURSIVE Normalize(_)
Normalize(t) ==
    IF t = <<>> THEN <<>>
    ELSE IF IsBlank(Head(t)) THEN Normalize(Tail(t))
    ELSE <<Head(t)>> \o Normalize(Tail(t))

\* C6: the text handed to send_message is the engine's text with all
\* whitespace inside the lines removed and the line breaks kept.
C6_DeliveredNormalized ==
    \A r \in Reqs :
        \A k \in 1..Len(sent[r]) : sent[r][k] = Normalize(text[r])

\* C7: a failed local call does not invalidate the handle: no later local
\* call fails to acquire the lock, and a request fails only by its own
\* set-image or extract-text.
C7_FailureConfined ==
    \A r \in Reqs : panic_at[r] # "lock"

\* The local engine failed in request r.
LocalFailed(r) == panic_at[r] \in {"set_image", "get_text"}

\* C8: every request ends with a client-error status, a server-error status
\* or a success status with an empty body; a local-engine failure ends with
\* a server-error status.
C8_ThreeOutcomes ==
    \A r \in Reqs :
        pc[r] = "done" =>
            /\ response[r].status \in {400, 500, 200}
            /\ (response[r].status = 200 => response[r].body = NoError)
            /\ (LocalFailed(r) => response[r].status = 500)

\* The exchange of r with Lens ended with a non-success status and its body.
GotErrorStatus(r) ==
    reply[r].sent /\ ~IsSuccess(reply[r].status) /\ reply[r].readable

\* The send of r failed at the transport level.
SendFailed(r) == reply[r] # NoReply /\ ~reply[r].sent

GotUndecodable(r) ==
    /\ reply[r].sent /\ IsSuccess(reply[r].status)
    /\ reply[r].readable /\ ~reply[r].body.decodes

\* C10: an undecodable response body makes the remote call fail with a
\* decode error for that request: the caller receives an error result and no
\* text is returned or delivered.
C10_DecodeErrorResult ==
    \A r \in Reqs :
        GotUndecodable(r) =>
            /\ panic_at[r] = ""
            /\ response[r].status = 500
            /\ text[r] = <<>> /\ sent[r] = <<>>

\* The concatenation of a sequence of sequences.
RECURSIVE Concat(_)
Concat(seqs) ==
    IF seqs = <<>> THEN <<>> ELSE Head(seqs) \o Concat(Tail(seqs))

\* The pieces of a line: for each word in order its plain text, then its
\* separator when present.
LinePieces(line) ==
    Concat([k \in 1..Len(line.words) |->
               IF line.words[k].text_separator = <<>>
               THEN <<line.words[k].plain_text>>
               ELSE <<line.words[k].plain_text, line.words[k].text_separator[1]>>])

\* The pieces of a paragraph: its lines in order with nothing between them,
\* then one line break.
ParagraphPieces(paragraph) ==
    Concat([k \in 1..Len(paragraph.lines) |-> LinePieces(paragraph.lines[k])])
    \o <<"\n">>

\* The message carries a text layout.
HasLayout(message) ==
    /\ message.objects_response # <<>>
    /\ message.objects_response[1].text # <<>>
    /\ message.objects_response[1].text[1].text_layout # <<>>

ParagraphsOf(message) ==
    message.objects_response[1].text[1].text_layout[1].paragraphs

\* The exchange of r ended with a decoded response.
GotMessage(r) ==
    /\ reply[r].sent /\ IsSuccess(reply[r].status)
    /\ reply[r].readable /\ reply[r].body.decodes

\* C11: the text of a decoded response is, paragraph after paragraph, the
\* words of its lines in order, each followed by its separator when present,
\* with exactly one line break after each paragraph and none after a line;
\* without objects response, text or text layout it is empty.
C11_TextWalk ==
    \A r \in Reqs :
        GotMessage(r) =>
            LET message == reply[r].body.message IN
            /\ pc[r] \in {"deliver", "save", "done"}
            /\ text[r] =
                  IF HasLayout(message)
                  THEN Concat([k \in 1..Len(ParagraphsOf(message)) |->
                                  ParagraphPieces(ParagraphsOf(message)[k])])
                  ELSE <<>>

\* A response of two paragraphs, one of them of two lines, has been walked.
C11_Witness ==
    \E r \in Reqs :
        /\ GotMessage(r)
        /\ HasLayout(reply[r].body.message)
        /\ Len(ParagraphsOf(reply[r].body.message)) = 2
        /\ Len(ParagraphsOf(reply[r].body.message)[1].lines) = 2
        /\ Len(text[r]) > 4

\* C12: the listener of the OCR route is bound, and requests are accepted,
\* only after Tesseract has been initialised; when the initialisation fails
\* the process ends with the listener unbound and no request accepted.
C12_ListenAfterInit ==
    /\ listener => api.initialized
    /\ main \in {"serve", "serving"} => listener
    /\ \A r \in Reqs : pc[r] # "new" => main = "serving"
    /\ ~api.initialized /\ main \notin {"start", "init_tesseract"} =>
          /\ main = "exited"
          /\ ~listener
          /\ \A r \in Reqs : pc[r] = "new"

\* The initialisation of Tesseract has failed.
C12_Witness ==
    /\ main = "exited"
    /\ ~api.initialized
    /\ ~listener

\* The positions of the pixels of an image, as <<x + 1, y + 1>>.
Positions(image) == (1..image.width) \X (1..image.height)

\* The grayscale intensity of the pixel at position c.
Intensity(image, c) == to_luma8(image).data[c[2]][c[1]][1]

\* Every pixel of the image is the grayscale value v.
UniformGray(image, v) ==
    /\ image.color = "L8"
    /\ \A c \in Positions(image) : image.data[c[2]][c[1]] = <<v>>

\* The image is `from` under the inclusive threshold rule: grayscale, of the
\* same size, 0 where the intensity is at most thresh and 255 elsewhere.
InclusiveRule(image, from, thresh) ==
    /\ Dimensions(image) = [Dimensions(from) EXCEPT !.color = "L8"]
    /\ \A c \in Positions(from) :
          image.data[c[2]][c[1]] =
              IF Intensity(from, c) <= thresh THEN <<0>> ELSE <<255>>

\* C13: Binarize(threshold) gives a grayscale image whose pixel is 0 where
\* the intensity is at most the threshold and 255 where it is above; on a
\* uniform image of intensity 128, Binarize(128) gives 0 everywhere.
C13_BinarizeInclusive ==
    operation.type = "binarize" =>
        /\ InclusiveRule(pixels, source, operation.threshold)
        /\ (operation.threshold = 128 /\ UniformGray(source, 128) /\ source.width > 0
               => UniformGray(pixels, 0))

\* Binarize(128) has run on an image with a pixel of intensity 128 and one
\* of intensity 129.
C13_Witness ==
    /\ operation.type = "binarize"
    /\ operation.threshold = 128
    /\ \E c, d \in Positions(source) :
          /\ Intensity(source, c) = 128 /\ pixels.data[c[2]][c[1]] = <<0>>
          /\ Intensity(source, d) = 129 /\ pixels.data[d[2]][d[1]] = <<255>>

\* C14: OtsuBinarize applies the inclusive threshold rule with the Otsu
\* level of the grayscale image when invertThreshold is false and with
\* 255 - level when it is true; for each level in 0..255 the two thresholds
\* t1 and t2 satisfy t2 = 255 - t1 and both are in 0..255.
C14_OtsuThreshold ==
    /\ operation.type = "otsuBinarize" =>
          LET level == otsu_level(to_luma8(source)) IN
          /\ level \in 0..255
          /\ InclusiveRule(pixels, source,
                 IF operation.invert_threshold THEN 255 - level ELSE level)
    /\ \A level \in 0..255 :
          LET t1 == threshold_value([OpOtsuBinarize EXCEPT !.invert_threshold = FALSE], level)
              t2 == threshold_value([OpOtsuBinarize EXCEPT !.invert_threshold = TRUE], level)
          IN  t1 = level /\ t2 = 255 - t1 /\ t2 \in 0..255

\* OtsuBinarize with invertThreshold has run on an image with a pixel whose
\* intensity lies between 255 - level and level.
C14_Witness ==
    /\ operation.type = "otsuBinarize"
    /\ operation.invert_threshold
    /\ \E c \in Positions(source) :
          LET level == otsu_level(to_luma8(source)) IN
          /\ 255 - level < Intensity(source, c)
          /\ Intensity(source, c) <= level
          /\ pixels.data[c[2]][c[1]] = <<255>>

\* The operations that produce a grayscale image.
GrayscaleOps == {"binarize", "otsuBinarize", "gaussianBlur"}

\* The operations of r that transform has applied.
Applied(r) == SubSeq(Ocr(r).operations, 1, i[r])

\* A grayscale operation has run in the pipeline run of r.
GrayscaleRan(r) ==
    \E k \in 1..i[r] : Applied(r)[k].type \in GrayscaleOps

\* C15 as stated: once Binarize, OtsuBinarize or GaussianBlur has run, the
\* image has no colour channels for the rest of the run.
C15_ColorDiscarded ==
    \A r \in Reqs :
        (pc[r] # "new" /\ Ocr(r).ok /\ GrayscaleRan(r))
            => image_transformer[r].color = "L8"

\* C15, amended: Binarize, OtsuBinarize and GaussianBlur each leave a
\* grayscale image, DrawFilledRectangle leaves an RGBA image whatever ran
\* before it, and Invert and Crop keep the colour model: the colour model is
\* the one of the last of these operations, or of the input when none ran.
C15_ColorModel ==
    \A r \in Reqs :
        (pc[r] # "new" /\ Ocr(r).ok) =>
            LET setters == {k \in 1..i[r] :
                               Applied(r)[k].type \in
                                   GrayscaleOps \cup {"drawFilledRectangle"}}
                last == CHOOSE k \in setters : \A j \in setters : j <= k
            IN  image_transformer[r].color =
                    IF setters = {} THEN Ocr(r).image.color
                    ELSE IF Applied(r)[last].type \in GrayscaleOps THEN "L8"
                    ELSE "Rgba8"

\* A rectangle has been drawn after a grayscale operation.
C15_Witness ==
    \E r \in Reqs :
        /\ Ocr(r).ok
        /\ i[r] = 2
        /\ Applied(r)[1].type \in GrayscaleOps
        /\ Applied(r)[2].type = "drawFilledRectangle"
        /\ image_transformer[r].color = "Rgba8"

\* C16: a Crop whose rectangle lies inside the image gives an image of
\* exactly width x height pixels whose pixel at (k, j) is the pixel of the
\* input at (x + k, y + j), in the colour model of the input.
C16_CropInBounds ==
    (operation.type = "crop" /\ ~CropOutOfBounds(source, operation)) =>
        /\ pixels.width = operation.width
        /\ pixels.height = operation.height
        /\ pixels.color = source.color
        /\ Len(pixels.data) = operation.height
        /\ \A j \in 0..(operation.height - 1) :
              /\ Len(pixels.data[j + 1]) = operation.width
              /\ \A k \in 0..(operation.width - 1) :
                    pixels.data[j + 1][k + 1] =
                        source.data[operation.y + j + 1][operation.x + k + 1]

\* A crop inside the image has moved a pixel: the pixel at the origin of the
\* result differs from the pixel at the origin of the input.
C16_Witness ==
    /\ operation.type = "crop"
    /\ ~CropOutOfBounds(source, operation)
    /\ operation.width > 0 /\ operation.height > 0
    /\ operation.x + operation.y > 0
    /\ pixels.data[1][1] # source.data[1][1]

\* The task of r is at `image.save("output.png")`: its next step writes the
\* file, which no request owns and no lock guards.
AtSave(r) == pc[r] = "save"

\* C17: apart from the Tesseract handle, no two requests in flight access a
\* common mutable location: no two of them are at once about to write the
\* same file.
C17_OnlyHandleShared ==
    \A r1, r2 \in Reqs : (AtSave(r1) /\ AtSave(r2)) => r1 = r2

\* The request of r selects the remote engine.
SelectsLens(r) ==
    pc[r] # "new" /\ Ocr(r).ok /\ Ocr(r).ocr_engine = "googleLens"

\* The remote call of r is in flight.
InFlight(r) == pc[r] = "lens_await"

\* C18: a remote call takes no lock and waits for none: a request that
\* selects the remote engine never holds the mutex or the handle, its call
\* starts whatever the state of the mutex and of the other requests, and
\* its answer is taken whatever that state.
C18_RemoteTakesNoLock ==
    \A r \in Reqs :
        SelectsLens(r) =>
            /\ api.holder # r
            /\ api.set_by # r
            /\ ~InNative(r)
            /\ invoked[r] # "tesseract"
            /\ (pc[r] = "engine" => ENABLED LensSend(r))
            /\ (InFlight(r) => ENABLED LensReply(r, LensReplies))

\* A remote call is in flight while another request holds the lock in a
\* native call.
C18_Witness ==
    \E r, q \in Reqs :
        /\ SelectsLens(r)
        /\ InFlight(r)
        /\ InNative(q)
        /\ api.holder = q

\* The task of r has reached `self.api.lock()`.
AtLock(r) ==
    pc[r] = "engine" /\ Ocr(r).ok /\ Ocr(r).ocr_engine = "tesseract"

\* C19: every request that reaches the lock of the local engine eventually
\* acquires it and starts its native call, every request that holds the
\* lock eventually ends its call and releases it, and the lock is free
\* whenever no native call is in progress.
C19_WaitersAcquire ==
    /\ []((\A r \in Reqs : ~InNative(r)) => api.holder = 0)
    /\ \A r \in Reqs : AtLock(r) ~> (api.holder = r /\ InNative(r))
    /\ \A r \in Reqs : (api.holder = r) ~> (api.holder # r /\ ~InNative(r))

\* The text the selected engine returned to r.
EngineReturned(r, t) ==
    IF Ocr(r).ocr_engine = "googleLens"
    THEN GotMessage(r) /\ t = ExtractText(reply[r].body.message)
    ELSE invoked[r] = "tesseract" /\ t \in TesseractTexts

Consistent(given, image) ==
    /\ given.bytes_per_pixel = bytes_per_pixel(image.color)
    /\ given.bytes_per_line = given.bytes_per_pixel * image.width
    /\ given.len = given.bytes_per_line * image.height

\* Every set_image call of this step by a request of the server is
\* consistent.
ServerCallsConsistent ==
    \A r \in Reqs :
        (pc[r] = "set_image" /\ pc'[r] # "set_image") =>
            Consistent(api'.given, image_transformer[r])

\* The set_image call of this step by the command-line program, if any, is
\* consistent.
CliCallConsistent ==
    (cli.pc = "set_image" /\ cli'.pc # "set_image") =>
        Consistent(cli'.given, cli.img)

\* C21: in every call of set_image, by a request of the server or by the
\* command-line program, bytes-per-pixel is the image's own, the row stride
\* is bytes-per-pixel times the width, and the buffer length is the row
\* stride times the height.
C21_GeometryConsistent ==
    [][ServerCallsConsistent /\ CliCallConsistent]_vars

====
